---- MODULE Spec2Model ----
(***************************************************************************)
(* State-machine model of the WordPress AI search pipeline:                *)
(*   - WordPressClient (src/src/wordpress_client.py): rate limiter,        *)
(*     search_content, record normalisation;                               *)
(*   - AISearchEngine (src/src/ai_search.py): model cascade, tool-call     *)
(*     processing, analysis call, fallback search.                         *)
(*                                                                         *)
(* JSON values are tagged tuples, so that a value of the wrong type is a   *)
(* value the model can carry and the operators can fail on:                *)
(*   <<"absent">>        the key is not in the mapping                     *)
(*   <<"null">>          JSON null / Python None                           *)
(*   <<"str", id, n>>    the first n characters of the text named id       *)
(*   <<"int", k>>        an integer                                        *)
(*   <<"dict", name>>    a mapping whose "name" entry is name              *)
(***************************************************************************)
EXTENDS Integers, Sequences, FiniteSets, TLC

----------------------------------------------------------------------------
(* Bounds of the model *)

\* longest upstream body (number of raw records) the content endpoint returns
MaxUpstream == 5
\* largest maxResults a caller or a tool invocation asks for
MaxAsk == 3
\* last clock value (ms) at which a content-client call may start
MaxTime == 1100
\* number of calls concurrent callers make on a shared content client
MaxCalls == 3

----------------------------------------------------------------------------
(* Program constants *)

\* config.max_results, default of MAX_RESULTS
DefaultMaxResults == 5
\* the "API limit" of per_page in search_content
ApiLimit == 100
\* excerpt[:200] in _format_results_for_ai
ExcerptCut == 200
\* self.min_request_interval = 0.1 s, in ms
MinRequestInterval == 100

Absent == <<"absent">>
Null == <<"null">>
JStr(id, n) == <<"str", id, n>>
JInt(k) == <<"int", k>>
JDict(name) == <<"dict", name>>

IsStr(v) == v[1] = "str"
IsInt(v) == v[1] = "int"
IsDict(v) == v[1] = "dict"

\* Python's min(a, b) on integers
Min(a, b) == IF a <= b THEN a ELSE b
Max(a, b) == IF a >= b THEN a ELSE b

\* Python's dict.get(key, default) on a mapping with the entry v for key
Get(v, default) == IF v = Absent THEN default ELSE v

\* seq[:k] without the cut
Slice_uncut(s, k) == s

\* Python's seq[:k]: the first k elements, or all but the last -k when k < 0
Slice(s, k) ==
    IF k >= 0 THEN SubSeq(s, 1, Min(k, Len(s)))
    ELSE SubSeq(s, 1, Max(Len(s) + k, 0))

\* Python's text[:k] on a text value
StrSlice(v, k) == JStr(v[2], Min(v[3], k))

\* outcome of a call: a returned value or a raised exception
Ret(v) == [ok |-> TRUE, val |-> v, exc |-> "none", msg |-> "none"]
Raise(e, m) == [ok |-> FALSE, val |-> <<>>, exc |-> e, msg |-> m]

----------------------------------------------------------------------------
(* Inputs: raw upstream records *)

\* a complete record with an excerpt longer than the cut
ItemFull(i) ==
    [id |-> JInt(i), title |-> JStr("title", i), excerpt |-> JStr("excerpt", 250),
     content |-> JStr("content", 300), url |-> JStr("url", 20),
     date |-> JStr("2024-01-01", 10), author |-> JDict(JStr("alice", 5)),
     type |-> JStr("page", 4), slug |-> JStr("slug", 5)]

\* a record with only an id: every other key is missing
ItemSparse(i) ==
    [id |-> JInt(i), title |-> Absent, excerpt |-> Absent, content |-> Absent,
     url |-> Absent, date |-> Absent, author |-> Absent, type |-> Absent,
     slug |-> Absent]

\* a record whose author mapping has no name
ItemNoName(i) ==
    [id |-> JInt(i), title |-> JStr("title", i), excerpt |-> JStr("excerpt", 120),
     content |-> Absent, url |-> JStr("url", 20), date |-> Absent,
     author |-> JDict(Absent), type |-> Absent, slug |-> Absent]

\* a record whose author is not a mapping
ItemTextAuthor(i) ==
    [id |-> JInt(i), title |-> JStr("title", i), excerpt |-> JStr("excerpt", 200),
     content |-> Absent, url |-> Absent, date |-> JStr("2024-01-01", 10),
     author |-> JStr("bob", 3), type |-> JStr("post", 4), slug |-> Absent]

\* a malformed record: null title and excerpt, no id
ItemBad ==
    [id |-> Absent, title |-> Null, excerpt |-> Null, content |-> Absent,
     url |-> Absent, date |-> Absent, author |-> JStr("bob", 3), type |-> Absent,
     slug |-> Absent]

\* the i-th record of the upstream collection
ItemAt(i) ==
    CASE i % 4 = 1 -> ItemFull(i)
      [] i % 4 = 2 -> ItemSparse(i)
      [] i % 4 = 3 -> ItemNoName(i)
      [] OTHER -> ItemTextAuthor(i)

\* an element of the upstream JSON array: a mapping, or something else
DictElem(item) == [t |-> "dict", f |-> item]
StrElem == [t |-> "str", f |-> ItemSparse(0)]

ListBody(items) == [t |-> "list", items |-> items]

\* JSON bodies the content endpoint can answer with: the first n records of
\* the collection, and bodies that are not a list of well-formed records
UpstreamBodies ==
    {ListBody([i \in 1..n |-> DictElem(ItemAt(i))]) : n \in 0..MaxUpstream}
    \cup {ListBody(<<DictElem(ItemAt(1)), DictElem(ItemBad)>>),
          ListBody(<<DictElem(ItemAt(1)), StrElem>>),
          [t |-> "dict", items |-> <<>>],
          [t |-> "null", items |-> <<>>]}

\* what one GET on the content endpoint can produce
UpstreamResponses ==
    {[kind |-> k, body |-> ListBody(<<>>)] : k \in {"transport", "status", "notjson"}}
    \cup {[kind |-> "json", body |-> b] : b \in UpstreamBodies}

----------------------------------------------------------------------------
(* WordPressClient: normalisation and search_content *)

\* the author taken as author_info['name'] without the default
format_content_item_rawname(item) ==
    LET author_info == Get(item.author, JDict(Absent))
        author_name == IF IsDict(author_info) THEN author_info[2]
                       ELSE JStr("Unknown", 7)
    IN [id |-> Get(item.id, Null),
        title |-> Get(item.title, JStr("Untitled", 8)),
        excerpt |-> Get(item.excerpt, JStr("", 0)),
        content |-> Get(item.content, JStr("", 0)),
        url |-> Get(item.url, JStr("", 0)),
        date |-> Get(item.date, JStr("", 0)),
        author |-> author_name,
        type |-> Get(item.type, JStr("post", 4)),
        slug |-> Get(item.slug, JStr("", 0))]

\* _format_content_item
format_content_item(item) ==
    LET author_info == Get(item.author, JDict(Absent))
        author_name == IF IsDict(author_info)
                       THEN Get(author_info[2], JStr("Unknown", 7))
                       ELSE JStr("Unknown", 7)
    IN [id |-> Get(item.id, Null),
        title |-> Get(item.title, JStr("Untitled", 8)),
        excerpt |-> Get(item.excerpt, JStr("", 0)),
        content |-> Get(item.content, JStr("", 0)),
        url |-> Get(item.url, JStr("", 0)),
        date |-> Get(item.date, JStr("", 0)),
        author |-> author_name,
        type |-> Get(item.type, JStr("post", 4)),
        slug |-> Get(item.slug, JStr("", 0))]

\* a filter that keeps, for every query but "q1", only the titled records
filter_content_by_query_matching(content, query) ==
    IF content.t = "null" THEN Raise("TypeError", "'NoneType' object is not iterable")
    ELSE IF content.t = "dict"
         THEN Raise("AttributeError", "'str' object has no attribute 'get'")
    ELSE IF \E i \in 1..Len(content.items) : content.items[i].t # "dict"
         THEN Raise("AttributeError", "'str' object has no attribute 'get'")
    ELSE Ret(SelectSeq([i \in 1..Len(content.items) |-> format_content_item(content.items[i].f)],
                       LAMBDA r : query = JStr("q1", 2) \/ r.title # JStr("Untitled", 8)))

\* [self._format_content_item(item) for item in content]; the query is unused
filter_content_by_query(content, query) ==
    IF content.t = "null" THEN Raise("TypeError", "'NoneType' object is not iterable")
    ELSE IF content.t = "dict"
         THEN Raise("AttributeError", "'str' object has no attribute 'get'")
    ELSE IF \E i \in 1..Len(content.items) : content.items[i].t # "dict"
         THEN Raise("AttributeError", "'str' object has no attribute 'get'")
    ELSE Ret([i \in 1..Len(content.items) |-> format_content_item(content.items[i].f)])

\* the per_page parameter of the GET
per_page(max_results) == Min(max_results, ApiLimit)

\* search_content after _rate_limit: max_results is a tagged value
\* (Null, Int or Str), resp the outcome of the GET; json_is_request_exc says
\* whether the installed requests raises a RequestException from
\* response.json() (requests >= 2.27) or a plain ValueError
search_content(query, max_results, resp, json_is_request_exc) ==
    LET mr == IF max_results = Null THEN JInt(DefaultMaxResults) ELSE max_results
    IN IF ~IsInt(mr)
       THEN Raise("TypeError", "'<' not supported between instances of 'int' and 'str'")
       ELSE IF resp.kind \in {"transport", "status"}
       THEN Raise("WordPressAPIError", "WordPress API request failed")
       \* response.json() fails: the first except clause takes a
       \* RequestException, the second a plain ValueError
       ELSE IF resp.kind = "notjson"
       THEN IF json_is_request_exc
            THEN Raise("WordPressAPIError", "WordPress API request failed")
            ELSE Raise("WordPressAPIError", "Invalid response from WordPress API")
       ELSE LET filtered_content == filter_content_by_query(resp.body, query)
            IN IF filtered_content.ok
               THEN Ret(Slice(filtered_content.val, mr[2]))
               ELSE filtered_content

----------------------------------------------------------------------------
(* Configuration (src/src/config.py) *)

\* the default of AI_MODEL
DefaultModel == "z-ai/glm-4.5-air:free"
\* identifiers AI_MODEL is set to in the model
PrimaryModels == {DefaultModel, "custom/primary"}
fallback_models == <<"z-ai/glm-4.5-air:free", "qwen/qwen3-coder:free", "moonshotai/kimi-k2:free">>
\* a model name the gateway may report that is none of the configured ones
OtherModel == "provider/resolved-model"

\* the fallback models ahead of the primary
Cascade_fallbacks_first(primary) == fallback_models \o <<primary>>

\* [self.current_model] + self.fallback_models
Cascade(primary) == <<primary>> \o fallback_models

Queries == {"q1", "q2"}
\* search() passes the query on without looking into it: one query of the
\* caller, which the query of a tool invocation may or may not repeat
SearchQueries == {"q1"}

----------------------------------------------------------------------------
(* Inputs: chat-completion responses of the model gateway *)

ToolArgs ==
    {[kind |-> k, query |-> Absent, maxResults |-> Absent] : k \in {"invalidjson", "notmapping"}}
    \cup {[kind |-> "obj", query |-> q, maxResults |-> m] :
            q \in {Absent, JStr("q2", 2)},
            m \in {Absent, Null, JStr("3", 1)} \cup {JInt(k) : k \in {1, MaxAsk}}}

SearchCalls == {[name |-> "search_wordpress", args |-> a] : a \in ToolArgs}
OtherCall == [name |-> "other_tool", args |-> [kind |-> "invalidjson", query |-> Absent, maxResults |-> Absent]]

\* message['tool_calls'] when the key is present
ToolCallLists ==
    {<<>>, <<OtherCall>>}
    \cup {<<c>> : c \in SearchCalls}
    \cup {<<OtherCall, c>> : c \in SearchCalls}
    \cup {<<c, [name |-> "search_wordpress",
                args |-> [kind |-> "obj", query |-> Absent, maxResults |-> JInt(2)]]>> :
            c \in {d \in SearchCalls : d.args.kind = "obj" /\ d.args.maxResults = JInt(1)}}

ModelFields(requested) ==
    {[present |-> FALSE, id |-> ""], [present |-> TRUE, id |-> requested],
     [present |-> TRUE, id |-> OtherModel]}

NoMessage == [has_tool_calls |-> FALSE, tool_calls |-> <<>>, content |-> Absent]

\* outcomes of the POST of _search_with_model for the requested model
ToolResponses(requested) ==
    {[kind |-> k, shape |-> "none", model |-> [present |-> FALSE, id |-> ""], message |-> NoMessage] :
        k \in {"transport", "status", "notjson"}}
    \cup {[kind |-> "json", shape |-> sh, model |-> [present |-> TRUE, id |-> requested],
           message |-> NoMessage] : sh \in {"nochoices", "emptychoices", "badtype"}}
    \cup {[kind |-> "json", shape |-> "msg", model |-> mf,
           message |-> [has_tool_calls |-> FALSE, tool_calls |-> <<>>, content |-> c]] :
            mf \in ModelFields(requested), c \in {Absent, Null, JStr("direct answer", 13)}}
    \cup {[kind |-> "json", shape |-> "msg", model |-> mf,
           message |-> [has_tool_calls |-> TRUE, tool_calls |-> tc, content |-> c]] :
            mf \in ModelFields(requested), tc \in ToolCallLists,
            c \in {Null, JStr("direct answer", 13)}}

\* outcomes of the POST of _get_ai_analysis
AnalysisResponses ==
    {[kind |-> k, shape |-> "none", content |-> Absent] : k \in {"transport", "status", "notjson"}}
    \cup {[kind |-> "json", shape |-> sh, content |-> Absent] : sh \in {"nochoices", "emptychoices", "badtype"}}
    \cup {[kind |-> "json", shape |-> "msg", content |-> c] :
            c \in {Absent, Null, JStr("analysis text", 13)}}

----------------------------------------------------------------------------
(* AISearchEngine: pure parts *)

NoContentFound == [text |-> "No content found.", entries |-> <<>>]
DegradedMessage == JStr("Unable to analyze results at this time.", 39)
NoRelevantContent == JStr("No relevant content found.", 26)

\* _format_results_for_ai: one numbered entry per record, excerpt cut
format_results_for_ai(results) ==
    IF results = <<>> THEN Ret(NoContentFound)
    ELSE IF \E i \in 1..Len(results) : ~IsStr(results[i].excerpt)
         THEN Raise("TypeError", "object is not subscriptable")
    ELSE Ret([text |-> "",
              entries |-> [i \in 1..Len(results) |->
                  [n |-> i,
                   title |-> results[i].title,
                   excerpt |-> StrSlice(results[i].excerpt, ExcerptCut),
                   url |-> results[i].url,
                   author |-> results[i].author,
                   date |-> results[i].date]]])

\* _get_ai_analysis without its except clause
get_ai_analysis_uncaught(resp, json_is_request_exc) ==
    IF resp.kind \in {"transport", "status", "notjson"}
    THEN Raise("RequestException", "OpenRouter API request failed")
    ELSE IF resp.shape = "nochoices" THEN Raise("KeyError", "'choices'")
    ELSE IF resp.shape = "emptychoices" THEN Raise("IndexError", "list index out of range")
    ELSE IF resp.shape = "badtype" THEN Raise("TypeError", "'NoneType' object is not subscriptable")
    ELSE IF resp.content = Absent THEN Raise("KeyError", "'content'")
    ELSE Ret(resp.content)

\* _get_ai_analysis from the outcome of its POST; json_is_request_exc says
\* whether the installed requests raises a RequestException from
\* response.json() (requests >= 2.27) or a plain JSONDecodeError
get_ai_analysis(resp, json_is_request_exc) ==
    IF resp.kind \in {"transport", "status"} THEN Ret(DegradedMessage)
    ELSE IF resp.kind = "notjson"
         THEN IF json_is_request_exc THEN Ret(DegradedMessage)
              ELSE Raise("JSONDecodeError", "Expecting value")
    ELSE IF resp.shape = "nochoices" THEN Raise("KeyError", "'choices'")
    ELSE IF resp.shape = "emptychoices" THEN Raise("IndexError", "list index out of range")
    ELSE IF resp.shape = "badtype" THEN Raise("TypeError", "'NoneType' object is not subscriptable")
    ELSE IF resp.content = Absent THEN Raise("KeyError", "'content'")
    ELSE Ret(resp.content)

\* the first tool call whatever its name
FirstSearchCall_any(tool_calls, i) == IF i > Len(tool_calls) THEN 0 ELSE i

\* position of the first tool call naming the retrieval tool, 0 if none
RECURSIVE FirstSearchCall(_, _)
FirstSearchCall(tool_calls, i) ==
    IF i > Len(tool_calls) THEN 0
    ELSE IF tool_calls[i].name = "search_wordpress" THEN i
    ELSE FirstSearchCall(tool_calls, i + 1)

\* what ai_response['choices'][0]['message'] raises on a body of that shape
shape_exc(shape) ==
    CASE shape = "nochoices" -> "KeyError"
      [] shape = "emptychoices" -> "IndexError"
      [] OTHER -> "TypeError"

\* what json.loads(arguments) / args.get raise on arguments of that kind
args_exc(kind) == IF kind = "invalidjson" THEN "JSONDecodeError" ELSE "AttributeError"

\* the except clause of _process_ai_response
process_exc(e) ==
    IF e \in {"KeyError", "IndexError", "JSONDecodeError"} THEN "AIError" ELSE e

\* the dict built on a return of _process_ai_response / _fallback_search
SearchResult(query, results, analysis, model_used, total) ==
    [query |-> query, results |-> results, analysis |-> analysis,
     model_used |-> model_used, total_results |-> total]

NoResult == SearchResult("", <<>>, Null, "", 0)

----------------------------------------------------------------------------
(* State *)

VARIABLES
    current_model,        \* config.ai_model, the primary model
    pc,                   \* position of search(): idle, attempt, fetch, analyze,
                          \* except (the handler of the loop), fallback, done, raised
    user_query,           \* the caller's query
    max_results,          \* the caller's max_results after the default
    idx,                  \* position in the cascade of the model being tried
    reply,                \* what the tool-call completion of this attempt answered
    model_field,          \* ai_response['model'] of the attempt in progress
    search_query,         \* args.get('query', user_query)
    search_max_results,   \* args.get('maxResults', max_results)
    wordpress_results,    \* records fetched for the tool invocation
    result,               \* the dict search() returned
    exc,                  \* the exception search() raised
    outcomes,             \* how each finished attempt of this search() ended:
                          \* gateway (transport failure of the tool-call completion),
                          \* failed (any other exception), direct, tool (a dict returned)
    last_exc,             \* the exception caught by the except clause of search()
    contacted,            \* model identifiers sent a tool-call completion
    n_fetch,              \* GETs issued on the content endpoint by this search()
    n_analysis,           \* analysis completions issued by this search()
    fetch,                \* the GET of the attempt in progress: parameters and response
    analysis,             \* the analysis completion of the attempt in progress
    now,                  \* time.time(), in ms
    last_request_time,    \* per client instance: self.last_request_time, in ms
    last_issue,           \* time of the latest outbound content request of the process
    prev_issue,           \* time of the one before it (0: there is none)
    prev_request_time,    \* per client instance: the last_request_time before the
                          \* latest call of that client (0: there is none)
    last_op,              \* the latest call made directly on a content client:
                          \* client, operation, the max_results asked for, the GET
                          \* issued, the outcome (a fetch of search() is in fetch)
    app,                  \* WPAISearchTerminal.start: phase, whether the required
                          \* configuration is there, and the two connection statuses
    callers,              \* per concurrent caller of a shared client: its position
                          \* in _rate_limit and the locals current_time,
                          \* time_since_last, the end of its sleep, and the clock
                          \* value read on the last line (stamp)
    issued_at             \* times of the requests concurrent callers sent through
                          \* the shared client, in order

attempt_vars == <<reply, model_field, search_query, search_max_results,
                  wordpress_results, fetch, analysis>>
search_vars == <<pc, user_query, max_results, idx, result, exc, outcomes, last_exc,
                 contacted, n_fetch, n_analysis, attempt_vars>>
race_vars == <<callers, issued_at>>
clock_vars == <<now, last_request_time, last_issue, prev_issue, prev_request_time,
                last_op, app, race_vars>>
vars == <<current_model, search_vars, clock_vars>>

NoReply == [kind |-> "none", args |-> "none", has_model |-> FALSE, content |-> Absent]
\* a completion that is not JSON or has no choices[0].message
MalformedReply == [kind |-> "malformed", args |-> "none", has_model |-> FALSE,
                   content |-> Absent]
NoFetch == [issued |-> FALSE, query |-> Absent, per_page |-> 0,
            resp |-> [kind |-> "transport", body |-> ListBody(<<>>)],
            json_is_request_exc |-> TRUE]
NoAnalysis == [issued |-> FALSE, model |-> "", content |-> NoContentFound,
               outcome |-> "none"]
NoModelField == [present |-> FALSE, id |-> ""]

\* the two WordPressClient instances of the process: WPAISearchTerminal's own
\* and the one AISearchEngine creates
Clients == {"terminal", "engine"}
\* the clock when the process starts (time.time() is seconds since 1970, far from 0)
StartTime == 1000

\* the terminal application before start()
Starting == [phase |-> "starting", config_ok |-> TRUE, wordpress_status |-> FALSE,
             ai_status |-> FALSE]

\* concurrent callers (threads) of one WordPressClient
Threads == {"t1", "t2"}
\* a caller outside _rate_limit
IdleCaller == [pc |-> "idle", current_time |-> 0, time_since_last |-> 0, wake |-> 0,
               stamp |-> 0]

SearchIdle ==
    /\ pc = "idle"
    /\ user_query = ""
    /\ max_results = 0
    /\ idx = 0
    /\ reply = NoReply
    /\ model_field = NoModelField
    /\ search_query = Absent
    /\ search_max_results = Absent
    /\ wordpress_results = <<>>
    /\ result = NoResult
    /\ exc = "none"
    /\ outcomes = <<>>
    /\ last_exc = "none"
    /\ contacted = <<>>
    /\ n_fetch = 0
    /\ n_analysis = 0
    /\ fetch = NoFetch
    /\ analysis = NoAnalysis

ClockInit ==
    /\ now = StartTime
    /\ last_request_time = [c \in Clients |-> 0]
    /\ last_issue = 0
    /\ prev_issue = 0
    /\ prev_request_time = [c \in Clients |-> 0]
    /\ last_op = [client |-> "none", op |-> "none", asked |-> Null, request |-> NoFetch,
                  result |-> Ret(Null)]
    /\ app = Starting
    /\ callers = [t \in Threads |-> IdleCaller]
    /\ issued_at = <<>>

Init ==
    /\ current_model \in PrimaryModels
    /\ SearchIdle
    /\ ClockInit

----------------------------------------------------------------------------
(* The rate limiter of WordPressClient *)

\* granularity of the clock, in ms
TickMs == 50

\* _rate_limit without the sleep
rate_limit_nosleep(t, last, over) == t

\* the clock after _rate_limit entered at time t with self.last_request_time =
\* last; over is how much longer than asked time.sleep slept
rate_limit(t, last, over) ==
    LET time_since_last == t - last
    IN IF time_since_last < MinRequestInterval
       THEN t + (MinRequestInterval - time_since_last) + over
       ELSE t

\* time.sleep sleeps at least as long as asked
Oversleep == {0, TickMs}
Oversleeps(c) ==
    IF now - last_request_time[c] < MinRequestInterval THEN Oversleep ELSE {0}

\* _rate_limit on client c: the sleep and the store of the clock
RateLimit(c, over) ==
    /\ now' = rate_limit(now, last_request_time[c], over)
    /\ last_request_time' = [last_request_time EXCEPT ![c] = now']
    /\ prev_request_time' = [prev_request_time EXCEPT ![c] = last_request_time[c]]

\* the GET goes out right after _rate_limit, unless the call raised before it
Issue(sent) ==
    IF sent THEN last_issue' = now' /\ prev_issue' = last_issue
    ELSE UNCHANGED <<last_issue, prev_issue>>

\* a call on client c made while the clock is within the horizon
RateLimited(c, over) ==
    /\ now <= MaxTime
    /\ RateLimit(c, over)
    /\ Issue(TRUE)

\* the WordPressClient instance of AISearchEngine
EngineClient == "engine"

----------------------------------------------------------------------------
(* AISearchEngine.search.  Its content fetches go through the rate limiter *)
(* of the engine's own WordPressClient.                                    *)

\* search(user_query, max_results): entry, up to the first model attempt.
\* The clock of the engine's client carries over from one search to the next;
\* the model follows the searches up to the first one that fetches content,
\* which keeps the clock bounded
Search(q, m) ==
    /\ pc = "idle"
    /\ last_request_time[EngineClient] = 0
    /\ pc' = "attempt"
    /\ user_query' = q
    /\ max_results' = IF m = Null THEN DefaultMaxResults ELSE m[2]
    /\ idx' = 1
    /\ UNCHANGED <<result, exc, outcomes, last_exc, contacted, n_fetch, n_analysis,
                   attempt_vars>>
    /\ UNCHANGED <<current_model, clock_vars>>

\* search() without the except clause of its loop: the exception leaves search()
AttemptFailed_uncaught(how, e) ==
    /\ pc' = "raised"
    /\ outcomes' = Append(outcomes, how)
    /\ last_exc' = e
    /\ UNCHANGED <<idx, result, exc>>

\* an exception leaves _search_with_model and reaches `except Exception as e`
AttemptFailed(how, e) ==
    /\ pc' = "except"
    /\ outcomes' = Append(outcomes, how)
    /\ last_exc' = e
    /\ UNCHANGED <<idx, result, exc>>

\* a handler that tries the last model of the cascade a second time
Continue_retries_last ==
    /\ pc = "except"
    /\ IF idx < Len(Cascade(current_model))
       THEN pc' = "attempt" /\ idx' = idx + 1
       ELSE IF Len(contacted) = idx
       THEN pc' = "attempt" /\ idx' = idx
       ELSE pc' = "fallback" /\ idx' = idx
    /\ last_exc' = "none"
    /\ reply' = NoReply
    /\ model_field' = NoModelField
    /\ search_query' = Absent
    /\ search_max_results' = Absent
    /\ wordpress_results' = <<>>
    /\ fetch' = NoFetch
    /\ analysis' = NoAnalysis
    /\ UNCHANGED <<user_query, max_results, result, exc, outcomes, contacted,
                   n_fetch, n_analysis>>
    /\ UNCHANGED <<current_model, clock_vars>>

\* a handler that gives up on the cascade after the first fallback model
Continue_gives_up ==
    /\ pc = "except"
    /\ IF idx < 2
       THEN pc' = "attempt" /\ idx' = idx + 1
       ELSE pc' = "fallback" /\ idx' = idx
    /\ last_exc' = "none"
    /\ reply' = NoReply
    /\ model_field' = NoModelField
    /\ search_query' = Absent
    /\ search_max_results' = Absent
    /\ wordpress_results' = <<>>
    /\ fetch' = NoFetch
    /\ analysis' = NoAnalysis
    /\ UNCHANGED <<user_query, max_results, result, exc, outcomes, contacted,
                   n_fetch, n_analysis>>
    /\ UNCHANGED <<current_model, clock_vars>>

\* the handler of the loop of search(): `continue` with the next model, or
\* leave the loop for _fallback_search; the locals of the attempt are gone
Continue ==
    /\ pc = "except"
    /\ IF idx < Len(Cascade(current_model))
       THEN pc' = "attempt" /\ idx' = idx + 1
       ELSE pc' = "fallback" /\ idx' = idx
    /\ last_exc' = "none"
    /\ reply' = NoReply
    /\ model_field' = NoModelField
    /\ search_query' = Absent
    /\ search_max_results' = Absent
    /\ wordpress_results' = <<>>
    /\ fetch' = NoFetch
    /\ analysis' = NoAnalysis
    /\ UNCHANGED <<user_query, max_results, result, exc, outcomes, contacted,
                   n_fetch, n_analysis>>
    /\ UNCHANGED <<current_model, clock_vars>>

\* the dict with a count of 0 whatever the records
ModelResult_uncounted(query, results, text, mf) ==
    SearchResult(query, results, text, mf.id, 0)

\* the dict _process_ai_response returns; model_used is ai_response['model']
ModelResult(query, results, text, mf) ==
    SearchResult(query, results, text, mf.id, Len(results))

\* a return of _process_ai_response: the dict, or KeyError on ai_response['model']
ReturnFromModel(results, text, mf, how) ==
    IF mf.present
    THEN /\ result' = ModelResult(user_query, results, text, mf)
         /\ pc' = "done"
         /\ outcomes' = Append(outcomes, how)
         /\ UNCHANGED <<idx, exc, last_exc>>
    ELSE AttemptFailed("failed", process_exc("KeyError"))

\* the default text whatever the message says
direct_text_default(message) == NoRelevantContent

\* message.get('content', 'No relevant content found.')
direct_text(message) == Get(message.content, NoRelevantContent)

\* args.get('query', user_query) and args.get('maxResults', max_results)
tool_query(args, query) == Get(args.query, JStr(query, 2))
tool_max_results(args, caller_max) == Get(args.maxResults, JInt(caller_max))

\* what the reply of a completion amounts to: an answer in text (no tool_calls
\* key, an empty list, or only other tools), or a call of the retrieval tool
\* with the kind of its arguments
ReplyOf(resp) ==
    LET message == resp.message
        names_search == /\ message.has_tool_calls
                        /\ \E i \in 1..Len(message.tool_calls) :
                              message.tool_calls[i].name = "search_wordpress"
    IN [kind |-> IF names_search THEN "search"
                 ELSE IF ~message.has_tool_calls THEN "text"
                 ELSE IF message.tool_calls = <<>> THEN "empty" ELSE "other",
        args |-> IF names_search
                 THEN message.tool_calls[FirstSearchCall(message.tool_calls, 1)].args.kind
                 ELSE "none",
        has_model |-> resp.model.present,
        content |-> IF names_search THEN Absent ELSE message.content]

\* _search_with_model: the tool-call completion and _process_ai_response up to
\* the content fetch
SearchWithModel(resp, json_is_request_exc) ==
    /\ pc = "attempt"
    /\ contacted' = Append(contacted, Cascade(current_model)[idx])
    /\ UNCHANGED <<user_query, max_results, n_fetch, n_analysis, wordpress_results,
                   fetch, analysis>>
    /\ UNCHANGED <<current_model, clock_vars>>
    /\ IF resp.kind \in {"transport", "status"}
       THEN /\ AttemptFailed("gateway", "AIError")
            /\ UNCHANGED <<reply, model_field, search_query, search_max_results>>
       ELSE IF resp.kind = "notjson"
       THEN /\ AttemptFailed("failed", IF json_is_request_exc THEN "AIError"
                                       ELSE "JSONDecodeError")
            /\ reply' = MalformedReply
            /\ UNCHANGED <<model_field, search_query, search_max_results>>
       ELSE IF resp.shape # "msg"
       THEN /\ AttemptFailed("failed", process_exc(shape_exc(resp.shape)))
            /\ reply' = MalformedReply
            /\ UNCHANGED <<model_field, search_query, search_max_results>>
       ELSE LET message == resp.message
                k == IF message.has_tool_calls THEN FirstSearchCall(message.tool_calls, 1) ELSE 0
            IN /\ reply' = ReplyOf(resp)
               /\ IF k = 0
                  THEN /\ ReturnFromModel(<<>>, direct_text(message), resp.model, "direct")
                       /\ UNCHANGED <<model_field, search_query, search_max_results>>
                  ELSE LET args == message.tool_calls[k].args
                       IN IF args.kind # "obj"
                          THEN /\ AttemptFailed("failed", process_exc(args_exc(args.kind)))
                               /\ UNCHANGED <<model_field, search_query, search_max_results>>
                          ELSE /\ pc' = "fetch"
                               /\ model_field' = resp.model
                               /\ search_query' = tool_query(args, user_query)
                               /\ search_max_results' = tool_max_results(args, max_results)
                               /\ UNCHANGED <<idx, result, exc, outcomes, last_exc>>

\* the GET of search_content: issued when max_results is None or an integer
\* (min(max_results, 100) raises before the GET otherwise)
FetchRecord(query, mr, resp, json_is_request_exc) ==
    IF mr = Null \/ IsInt(mr)
    THEN [issued |-> TRUE, query |-> query,
          per_page |-> per_page(IF mr = Null THEN DefaultMaxResults ELSE mr[2]),
          resp |-> resp, json_is_request_exc |-> json_is_request_exc]
    ELSE NoFetch

\* _process_ai_response: search_content for the tool invocation (_rate_limit,
\* then the GET unless min(max_results, 100) raises), then
\* _format_results_for_ai
ToolFetch(resp, json_is_request_exc, over) ==
    /\ pc = "fetch"
    /\ LET r == search_content(search_query, search_max_results, resp, json_is_request_exc)
           f == format_results_for_ai(r.val)
           rec == FetchRecord(search_query, search_max_results, resp, json_is_request_exc)
       IN /\ n_fetch' = IF rec.issued THEN n_fetch + 1 ELSE n_fetch
          /\ fetch' = rec
          /\ RateLimit(EngineClient, over)
          /\ Issue(rec.issued)
          /\ IF ~r.ok
             THEN AttemptFailed("failed", process_exc(r.exc)) /\ wordpress_results' = <<>>
             ELSE /\ wordpress_results' = r.val
                  /\ IF ~f.ok THEN AttemptFailed("failed", process_exc(f.exc))
                     ELSE /\ pc' = "analyze"
                          /\ UNCHANGED <<idx, result, exc, outcomes, last_exc>>
    /\ UNCHANGED <<user_query, max_results, contacted, n_analysis, analysis, reply,
                   model_field, search_query, search_max_results>>
    /\ UNCHANGED <<current_model, last_op, app, race_vars>>

\* the model the analysis completion is sent to
analysis_model(primary, cascade_model) == primary

\* _process_ai_response: _get_ai_analysis and the return
Analyze(resp, json_is_request_exc) ==
    /\ pc = "analyze"
    /\ n_analysis' = n_analysis + 1
    /\ analysis' = [issued |-> TRUE,
                    model |-> analysis_model(current_model, Cascade(current_model)[idx]),
                    content |-> format_results_for_ai(wordpress_results).val,
                    outcome |-> resp.kind]
    /\ LET a == get_ai_analysis(resp, json_is_request_exc)
       IN IF a.ok
          THEN ReturnFromModel(wordpress_results, a.val, model_field, "tool")
          ELSE AttemptFailed("failed", process_exc(a.exc))
    /\ UNCHANGED <<user_query, max_results, contacted, n_fetch, fetch, reply,
                   model_field, search_query, search_max_results, wordpress_results>>
    /\ UNCHANGED <<current_model, clock_vars>>

\* the fallback dict with the records filtered down to those with a title
FallbackResult_filtered(query, results) ==
    LET kept == SelectSeq(results, LAMBDA r : r.title # JStr("Untitled", 8))
    IN SearchResult(query, kept, <<"found", Len(kept)>>, "fallback", Len(kept))

\* the dicts _fallback_search returns
FallbackResult(query, results) ==
    SearchResult(query, results, <<"found", Len(results)>>, "fallback", Len(results))
ErrorResult(query, msg) ==
    SearchResult(query, <<>>, <<"failed", msg>>, "error", 0)

\* _fallback_search: search_content (_rate_limit, then the GET) and the dict
FallbackSearch(resp, json_is_request_exc, over) ==
    /\ pc = "fallback"
    /\ LET r == search_content(JStr(user_query, 2), JInt(max_results), resp,
                               json_is_request_exc)
       IN /\ fetch' = FetchRecord(JStr(user_query, 2), JInt(max_results), resp,
                                  json_is_request_exc)
          /\ n_fetch' = n_fetch + 1
          /\ RateLimit(EngineClient, over)
          /\ Issue(TRUE)
          /\ IF r.ok
             THEN /\ result' = FallbackResult(user_query, r.val)
                  /\ pc' = "done"
                  /\ exc' = exc
             ELSE IF r.exc = "WordPressAPIError"
             THEN /\ result' = ErrorResult(user_query, r.msg)
                  /\ pc' = "done"
                  /\ exc' = exc
             ELSE /\ pc' = "raised"
                  /\ exc' = r.exc
                  /\ result' = result
    /\ UNCHANGED <<user_query, max_results, idx, outcomes, last_exc, contacted,
                   n_analysis, reply, model_field, search_query, search_max_results,
                   wordpress_results, analysis>>
    /\ UNCHANGED <<current_model, last_op, app, race_vars>>

\* the caller has the result (or the exception); the engine keeps no state
\* between searches
Finish ==
    /\ pc \in {"done", "raised"}
    /\ pc' = "idle"
    /\ user_query' = ""
    /\ max_results' = 0
    /\ idx' = 0
    /\ reply' = NoReply
    /\ model_field' = NoModelField
    /\ search_query' = Absent
    /\ search_max_results' = Absent
    /\ wordpress_results' = <<>>
    /\ result' = NoResult
    /\ exc' = "none"
    /\ outcomes' = <<>>
    /\ last_exc' = "none"
    /\ contacted' = <<>>
    /\ n_fetch' = 0
    /\ n_analysis' = 0
    /\ fetch' = NoFetch
    /\ analysis' = NoAnalysis
    /\ UNCHANGED <<current_model, clock_vars>>

\* how much longer than asked the sleeps of the engine's fetches last: what
\* search() returns does not depend on it, the sleeps are taken as exact
EngineOversleeps == {0}

MaxResultsArgs == {Null, JInt(MaxAsk - 1)}

Next ==
    \/ \E q \in SearchQueries, m \in MaxResultsArgs : Search(q, m)
    \/ /\ pc = "attempt"
       /\ \E resp \in ToolResponses(Cascade(current_model)[idx]) :
            \E b \in (IF resp.kind = "notjson" THEN BOOLEAN ELSE {TRUE}) :
                SearchWithModel(resp, b)
    \/ \E resp \in UpstreamResponses :
         \E b \in (IF resp.kind = "notjson" THEN BOOLEAN ELSE {TRUE}),
            over \in EngineOversleeps : ToolFetch(resp, b, over)
    \/ \E resp \in AnalysisResponses :
         \E b \in (IF resp.kind = "notjson" THEN BOOLEAN ELSE {TRUE}) : Analyze(resp, b)
    \/ Continue
    \/ \E resp \in UpstreamResponses :
         \E b \in (IF resp.kind = "notjson" THEN BOOLEAN ELSE {TRUE}),
            over \in EngineOversleeps : FallbackSearch(resp, b, over)
    \/ Finish

Spec == Init /\ [][Next]_vars

\* the steps of a search() under way: its network calls return or time out
\* (config.request_timeout), so each of them is eventually taken
Run ==
    \/ /\ pc = "attempt"
       /\ \E resp \in ToolResponses(Cascade(current_model)[idx]) :
            \E b \in (IF resp.kind = "notjson" THEN BOOLEAN ELSE {TRUE}) :
                SearchWithModel(resp, b)
    \/ \E resp \in UpstreamResponses :
         \E b \in (IF resp.kind = "notjson" THEN BOOLEAN ELSE {TRUE}),
            over \in EngineOversleeps : ToolFetch(resp, b, over)
    \/ \E resp \in AnalysisResponses :
         \E b \in (IF resp.kind = "notjson" THEN BOOLEAN ELSE {TRUE}) : Analyze(resp, b)
    \/ Continue
    \/ \E resp \in UpstreamResponses :
         \E b \in (IF resp.kind = "notjson" THEN BOOLEAN ELSE {TRUE}),
            over \in EngineOversleeps : FallbackSearch(resp, b, over)

SpecLive == Init /\ [][Next]_vars /\ WF_vars(Run)

----------------------------------------------------------------------------
(* WordPressClient under the clock: _rate_limit and the three operations,  *)
(* in a process that WPAISearchTerminal.start has brought up.  The process *)
(* is single-threaded, so a call runs to completion.                       *)

\* get_content_by_id from the outcome of its GET
get_content_by_id(resp, json_is_request_exc) ==
    IF resp.kind \in {"transport", "status"} THEN Ret(Null)
    ELSE IF resp.kind = "notjson"
         THEN IF json_is_request_exc THEN Ret(Null)
              ELSE Raise("JSONDecodeError", "Expecting value")
    ELSE IF resp.body.t = "dict" THEN Ret(<<"record", format_content_item(resp.body.f)>>)
    ELSE Raise("AttributeError", "object has no attribute 'get'")

\* test_connection from the outcome of its GET
test_connection(resp) ==
    IF resp.kind \in {"transport", "status"} THEN Ret(<<"bool", FALSE>>)
    ELSE Ret(<<"bool", TRUE>>)

\* what the GET of one record can produce
ByIdResponses ==
    {[kind |-> k, body |-> [t |-> "null", f |-> ItemSparse(0)]] :
        k \in {"transport", "status", "notjson"}}
    \cup {[kind |-> "json", body |-> [t |-> "dict", f |-> i]] :
            i \in {ItemAt(1), ItemAt(2), ItemAt(3), ItemAt(4), ItemBad}}
    \cup {[kind |-> "json", body |-> [t |-> bt, f |-> ItemSparse(0)]] : bt \in {"list", "null"}}

\* the GET of get_content_by_id (no parameters) and of test_connection
\* (per_page = 1)
PlainGet(per, resp) ==
    [issued |-> TRUE, query |-> Absent, per_page |-> per, resp |-> resp,
     json_is_request_exc |-> TRUE]

SearchContentCall(c, q, m, resp, json_is_request_exc, over) ==
    /\ pc = "idle"
    /\ app.phase = "ready"
    /\ RateLimited(c, over)
    /\ LET r == search_content(JStr(q, 2), m, resp, json_is_request_exc)
       IN last_op' = [client |-> c, op |-> "search_content", asked |-> m,
                      request |-> FetchRecord(JStr(q, 2), m, resp, json_is_request_exc),
                      result |-> IF r.ok THEN Ret(<<"list", r.val>>) ELSE r]
    /\ UNCHANGED <<current_model, search_vars, app, race_vars>>

GetContentById(c, resp, json_is_request_exc, over) ==
    /\ pc = "idle"
    /\ app.phase = "ready"
    /\ RateLimited(c, over)
    /\ last_op' = [client |-> c, op |-> "get_content_by_id", asked |-> Null,
                   request |-> PlainGet(0, resp),
                   result |-> get_content_by_id(resp, json_is_request_exc)]
    /\ UNCHANGED <<current_model, search_vars, app, race_vars>>

TestConnection(c, resp, over) ==
    /\ pc = "idle"
    /\ app.phase = "ready"
    /\ RateLimited(c, over)
    /\ last_op' = [client |-> c, op |-> "test_connection", asked |-> Null,
                   request |-> PlainGet(1, resp),
                   result |-> test_connection(resp)]
    /\ UNCHANGED <<current_model, search_vars, app, race_vars>>

\* WPAISearchTerminal.start up to the first query: the required configuration
\* (Config raises, or validate() is False and start exits), the two connection
\* tests, and sys.exit(1) when the content endpoint does not answer
Start(config_ok, resp, ai_status, over) ==
    /\ pc = "idle"
    /\ app.phase = "starting"
    /\ IF ~config_ok
       THEN /\ app' = [phase |-> "exited", config_ok |-> FALSE,
                       wordpress_status |-> FALSE, ai_status |-> FALSE]
            /\ UNCHANGED <<now, last_request_time, last_issue, prev_issue,
                           prev_request_time, last_op>>
       ELSE LET wordpress_status == test_connection(resp).val[2]
            IN /\ RateLimited("terminal", over)
               /\ last_op' = [client |-> "terminal", op |-> "test_connection",
                              asked |-> Null,
                              request |-> PlainGet(1, resp),
                              result |-> test_connection(resp)]
               /\ app' = [phase |-> IF wordpress_status THEN "ready" ELSE "exited",
                          config_ok |-> TRUE,
                          wordpress_status |-> wordpress_status,
                          ai_status |-> ai_status]
    /\ UNCHANGED <<current_model, search_vars, race_vars>>

\* time passes between two calls
Tick ==
    /\ now <= MaxTime
    /\ now' = now + TickMs
    /\ UNCHANGED <<last_request_time, last_issue, prev_issue, prev_request_time,
                   last_op, app, race_vars>>
    /\ UNCHANGED <<current_model, search_vars>>

\* what the GET of test_connection can produce (the body is not read)
ConnectionResponses ==
    {[kind |-> k, body |-> ListBody(<<>>)] : k \in {"transport", "status", "notjson", "json"}}

\* max_results a caller of search_content passes: None, small counts, and one
\* above the API limit
ClientMaxResults == {Null, JInt(MaxAsk - 1), JInt(ApiLimit + MaxAsk)}

NextClock ==
    \/ \E config_ok \in BOOLEAN, resp \in ConnectionResponses, ai_status \in BOOLEAN :
         \E over \in Oversleeps("terminal") : Start(config_ok, resp, ai_status, over)
    \/ \E c \in Clients, q \in Queries, m \in ClientMaxResults, resp \in UpstreamResponses :
         \E b \in (IF resp.kind = "notjson" THEN BOOLEAN ELSE {TRUE}), over \in Oversleeps(c) :
             SearchContentCall(c, q, m, resp, b, over)
    \/ \E c \in Clients, resp \in ByIdResponses :
         \E b \in (IF resp.kind = "notjson" THEN BOOLEAN ELSE {TRUE}), over \in Oversleeps(c) :
             GetContentById(c, resp, b, over)
    \/ \E c \in Clients, resp \in ConnectionResponses :
         \E over \in Oversleeps(c) : TestConnection(c, resp, over)
    \/ Tick

SpecClock == Init /\ [][NextClock]_vars

----------------------------------------------------------------------------
(* One WordPressClient shared by concurrent callers: the statements of     *)
(* _rate_limit and the GET that follows it interleave with those of the    *)
(* other callers (there is no lock in the class).                          *)

\* the client instance the callers share
SharedClient == "engine"
\* what the statements of _rate_limit leave alone
race_frame == <<current_model, search_vars, last_issue, prev_issue, prev_request_time,
                last_op, app>>

\* current_time = time.time()
ReadClock(t) ==
    /\ callers[t].pc = "idle"
    /\ now <= MaxTime
    /\ Len(issued_at) + Cardinality({u \in Threads : callers[u].pc # "idle"}) < MaxCalls
    /\ callers' = [callers EXCEPT ![t] = [pc |-> "compare", current_time |-> now,
                                          time_since_last |-> 0, wake |-> 0, stamp |-> 0]]
    /\ UNCHANGED <<now, last_request_time, issued_at>>
    /\ UNCHANGED race_frame

\* time_since_last = current_time - self.last_request_time, and the test
\* against min_request_interval; time.sleep starts when the test holds
Compare(t) ==
    /\ callers[t].pc = "compare"
    /\ LET time_since_last == callers[t].current_time - last_request_time[SharedClient]
       IN callers' = [callers EXCEPT ![t] =
            IF time_since_last < MinRequestInterval
            THEN [pc |-> "sleep", current_time |-> callers[t].current_time,
                  time_since_last |-> time_since_last,
                  wake |-> now + (MinRequestInterval - time_since_last), stamp |-> 0]
            ELSE [pc |-> "write", current_time |-> callers[t].current_time,
                  time_since_last |-> time_since_last, wake |-> 0, stamp |-> 0]]
    /\ UNCHANGED <<now, last_request_time, issued_at>>
    /\ UNCHANGED race_frame

\* time.sleep returns, not before the time asked for has passed
Wake(t) ==
    /\ callers[t].pc = "sleep"
    /\ now >= callers[t].wake
    /\ callers' = [callers EXCEPT ![t].pc = "write"]
    /\ UNCHANGED <<now, last_request_time, issued_at>>
    /\ UNCHANGED race_frame

\* time.time() of the last line of _rate_limit returns
CallClock(t) ==
    /\ callers[t].pc = "write"
    /\ callers' = [callers EXCEPT ![t].pc = "store", ![t].stamp = now]
    /\ UNCHANGED <<now, last_request_time, issued_at>>
    /\ UNCHANGED race_frame

\* the store into self.last_request_time of the value read, and the return
\* from _rate_limit
Store(t) ==
    /\ callers[t].pc = "store"
    /\ last_request_time' = [last_request_time EXCEPT ![SharedClient] = callers[t].stamp]
    /\ callers' = [callers EXCEPT ![t].pc = "send"]
    /\ UNCHANGED <<now, issued_at>>
    /\ UNCHANGED race_frame

\* self.session.get: the request goes out
Send(t) ==
    /\ callers[t].pc = "send"
    /\ issued_at' = Append(issued_at, now)
    /\ callers' = [callers EXCEPT ![t] = IdleCaller]
    /\ UNCHANGED <<now, last_request_time>>
    /\ UNCHANGED race_frame

NextRace ==
    \/ \E t \in Threads : ReadClock(t)
    \/ \E t \in Threads : Compare(t)
    \/ \E t \in Threads : Wake(t)
    \/ \E t \in Threads : CallClock(t)
    \/ \E t \in Threads : Store(t)
    \/ \E t \in Threads : Send(t)
    \/ Tick

SpecRace == Init /\ [][NextRace]_vars

----------------------------------------------------------------------------
(* Properties of search() *)

Last(s) == s[Len(s)]

\* every model of the cascade has been tried and has failed
AllFailed ==
    /\ Len(outcomes) = Len(Cascade(current_model))
    /\ \A i \in 1..Len(outcomes) : outcomes[i] \in {"gateway", "failed"}

\* what search_content makes of the response the last GET received
FallbackFetch ==
    search_content(JStr(user_query, 2), JInt(max_results), fetch.resp, fetch.json_is_request_exc)
ToolFetched ==
    search_content(search_query, search_max_results, fetch.resp, fetch.json_is_request_exc)

\* C1: search() returns a SearchResult and never raises to its caller,
\* whatever the model gateway and the content endpoint answer.
C1_SearchNeverRaises == pc # "raised"

\* C2: the results of the SearchResult search() returns are at most the
\* caller's maxResults and at most 100 long.
C2_ResultsWithinRequestedMax ==
    pc = "done" =>
        /\ Len(result.results) <= max_results
        /\ Len(result.results) <= ApiLimit

\* C3: when the primary model's completion succeeds and invokes the retrieval
\* tool, search() stays with the primary model (no fallback model is
\* contacted) and the result names the primary model's identifier.
C3_PrimaryToolCallWins ==
    (idx = 1 /\ reply.kind = "search" /\ search_max_results # Absent) =>
        /\ pc \in {"fetch", "analyze", "done"}
        /\ Len(contacted) = 1
        /\ pc = "done" => result.model_used = current_model

\* C4: when the primary model fails at transport level and the first fallback
\* model's attempt succeeds, model_used is that fallback's identifier.
C4_FirstFallbackReported ==
    (pc = "done" /\ Len(outcomes) = 2 /\ outcomes[1] = "gateway") =>
        result.model_used = fallback_models[1]

\* C5: when every model of the cascade fails, the result has the sentinel
\* "fallback" and exactly the records search_content returns for the caller's
\* query and max_results.
C5_FallbackReturnsFetchUnmodified ==
    (pc = "done" /\ AllFailed /\ FallbackFetch.ok) =>
        /\ result.model_used = "fallback"
        /\ result.results = FallbackFetch.val
        /\ fetch.query = JStr(user_query, 2)
        /\ fetch.per_page = Min(max_results, ApiLimit)

C5_Witness ==
    /\ pc = "done"
    /\ AllFailed
    /\ result.model_used = "fallback"
    /\ max_results = 2
    /\ Len(fetch.resp.body.items) = 4
    /\ Len(result.results) = 2

\* C6: when every model fails and the content fetch of the fallback path
\* fails too, search() returns the "error" sentinel with no results, a count
\* of 0 and the error text as analysis.
C6_ErrorSentinelOnFetchFailure ==
    (pc \in {"done", "raised"} /\ AllFailed /\ ~FallbackFetch.ok) =>
        /\ pc = "done"
        /\ result.model_used = "error"
        /\ result.results = <<>>
        /\ result.total_results = 0
        /\ result.analysis = <<"failed", FallbackFetch.msg>>

\* C7: a completion with a text answer and no tool invocation ends the
\* search at once: no results, count 0, the model's text verbatim as analysis,
\* no content fetch, no analysis call and no later model contacted.
C7_DirectAnswerReturned ==
    (reply.kind \in {"text", "empty"} /\ reply.has_model /\ IsStr(reply.content)) =>
        /\ pc = "done"
        /\ result.results = <<>>
        /\ result.total_results = 0
        /\ result.analysis = reply.content
        /\ ~fetch.issued
        /\ ~analysis.issued
        /\ Len(contacted) = idx

C7_Witness ==
    /\ pc = "done"
    /\ reply.kind = "text"
    /\ idx = 2
    /\ result.analysis = JStr("direct answer", 13)

\* C8: when the tool invocation of the winning model carries maxResults = k
\* and the content endpoint returns more than k records, the result holds the
\* first k normalised records in upstream order, the analysis call is given
\* those k records formatted, and total_results = k.
C8_ToolMaxResultsTruncates ==
    (/\ pc = "done"
     /\ Last(outcomes) = "tool"
     /\ IsInt(search_max_results)
     /\ search_max_results[2] > 0
     /\ Len(fetch.resp.body.items) > search_max_results[2]) =>
        LET k == search_max_results[2]
            entries == analysis.content.entries
        IN /\ result.results = [i \in 1..k |-> format_content_item(fetch.resp.body.items[i].f)]
           /\ result.total_results = k
           /\ Len(entries) = k
           /\ \A i \in 1..k :
                /\ entries[i].n = i
                /\ entries[i].title = result.results[i].title
                /\ entries[i].excerpt = JStr(result.results[i].excerpt[2],
                                             Min(result.results[i].excerpt[3], ExcerptCut))
                /\ entries[i].url = result.results[i].url
                /\ entries[i].author = result.results[i].author
                /\ entries[i].date = result.results[i].date

C8_Witness ==
    /\ pc = "done"
    /\ Last(outcomes) = "tool"
    /\ search_max_results = JInt(3)
    /\ Len(fetch.resp.body.items) = 5
    /\ result.total_results = 3

\* C9: when the analysis completion fails at transport level after a
\* successful content fetch, search() still returns the fetched records and
\* their count, with the fixed degraded message as analysis.
C9_AnalysisOutageKeepsResults ==
    (analysis.issued /\ analysis.outcome \in {"transport", "status"} /\ model_field.present) =>
        /\ pc = "done"
        /\ ToolFetched.ok
        /\ result.results = ToolFetched.val
        /\ result.total_results = Len(ToolFetched.val)
        /\ result.analysis = DegradedMessage

C9_Witness ==
    /\ pc = "done"
    /\ analysis.outcome = "transport"
    /\ result.analysis = DegradedMessage
    /\ result.total_results = 2

----------------------------------------------------------------------------
(* Properties of the rate limiter *)

\* C10: any two consecutive outbound requests of the content clients of the
\* process, whatever the client instance, are at least the minimum interval
\* apart.
C10_ProcessWideMinInterval ==
    prev_issue # 0 => last_issue - prev_issue >= MinRequestInterval

\* C11: with one content client, the requests of two consecutive calls of
\* that client are at least the minimum interval apart (so N consecutive
\* calls take at least (N-1) * 100 ms).
C11_ConsecutiveCallsSpaced ==
    \A c \in Clients :
        prev_request_time[c] # 0 =>
            last_request_time[c] - prev_request_time[c] >= MinRequestInterval

\* two calls of the terminal's client back to back: the second one slept
C11_Witness ==
    /\ last_op.client = "terminal"
    /\ prev_request_time["terminal"] # 0
    /\ last_request_time["terminal"] - prev_request_time["terminal"] = MinRequestInterval
    /\ last_request_time["engine"] = 0

----------------------------------------------------------------------------
(* Properties of the content client's operations *)

\* the body the latest GET received is a list of mappings
WellShapedList(body) ==
    /\ body.t = "list"
    /\ \A i \in 1..Len(body.items) : body.items[i].t = "dict"

\* C12: search_content fails with WordPressAPIError and with no other
\* exception, on a network failure, a non-2xx status and a body of the wrong
\* shape alike.
C12_OnlyRetrievalError ==
    (last_op.op = "search_content" /\ ~last_op.result.ok) =>
        last_op.result.exc = "WordPressAPIError"

\* C13: search_content issues one GET asking for per_page = min(max_results,
\* 100), does not filter by the query, and returns the normalised upstream
\* records in upstream order cut to the first max_results.
C13_FetchAllUnfiltered ==
    (/\ last_op.op = "search_content"
     /\ last_op.request.resp.kind = "json"
     /\ WellShapedList(last_op.request.resp.body)) =>
        LET k == IF last_op.asked = Null THEN DefaultMaxResults ELSE last_op.asked[2]
            items == last_op.request.resp.body.items
            n == IF k <= Len(items) THEN k ELSE Len(items)
        IN /\ last_op.request.issued
           /\ last_op.request.per_page = (IF k <= ApiLimit THEN k ELSE ApiLimit)
           /\ last_op.result.ok
           /\ last_op.result.val =
                <<"list", [i \in 1..n |-> format_content_item(items[i].f)]>>

\* the query "q2", two records asked for, five upstream (one of them without
\* a title)
C13_Witness ==
    /\ last_op.op = "search_content"
    /\ last_op.request.query = JStr("q2", 2)
    /\ last_op.asked = JInt(2)
    /\ last_op.request.resp.kind = "json"
    /\ Len(last_op.request.resp.body.items) = 5
    /\ last_op.result.ok
    /\ Len(last_op.result.val[2]) = 2

\* the cap of per_page: more than the API limit asked for
C13_WitnessCap ==
    /\ last_op.op = "search_content"
    /\ last_op.asked = JInt(ApiLimit + MaxAsk)
    /\ last_op.request.per_page = ApiLimit
    /\ last_op.result.ok

\* C14: normalisation is a function of the raw record alone (formatting it
\* again gives the same record), and a raw record without author.name (no
\* author, an author that is not a mapping, a mapping without a name) gets
\* the author "Unknown".
C14_NormalisationStable ==
    (/\ last_op.op = "get_content_by_id"
     /\ last_op.request.resp.kind = "json"
     /\ last_op.request.resp.body.t = "dict") =>
        LET raw == last_op.request.resp.body.f
            rec == last_op.result.val[2]
            no_name == IF IsDict(raw.author) THEN raw.author[2] = Absent ELSE TRUE
        IN /\ last_op.result.ok
           /\ rec = format_content_item(raw)
           /\ no_name => rec.author = JStr("Unknown", 7)
           /\ ~no_name => rec.author = raw.author[2]

\* a record whose author mapping has no name
C14_Witness ==
    /\ last_op.op = "get_content_by_id"
    /\ last_op.request.resp.kind = "json"
    /\ last_op.request.resp.body.t = "dict"
    /\ last_op.request.resp.body.f.author = JDict(Absent)
    /\ last_op.result.ok
    /\ last_op.result.val[2].author = JStr("Unknown", 7)

\* C15: get_content_by_id returns a record, or None on any failure; it never
\* raises.
C15_FetchByIdNeverRaises ==
    last_op.op = "get_content_by_id" =>
        /\ last_op.result.ok
        /\ last_op.result.val = Null \/ last_op.result.val[1] = "record"

----------------------------------------------------------------------------
(* Properties of the start of the terminal application *)

\* C16: the process ends before the first query only when required
\* configuration is missing; no outcome of the two connection tests ends it.
C16_OnlyMissingConfigHalts ==
    app.phase = "exited" => ~app.config_ok

----------------------------------------------------------------------------
(* Properties of the cascade *)

\* C17: the models are contacted one after the other in the order primary,
\* then the fallbacks in configuration order; a position is contacted only
\* after every earlier attempt has ended in failure, at most one attempt is
\* under way, and after an attempt has returned a result no later position
\* is contacted.
C17_SequentialCascade ==
    /\ Len(contacted) <= 1 + Len(fallback_models)
    /\ \A i \in 1..Len(contacted) :
         contacted[i] = IF i = 1 THEN current_model ELSE fallback_models[i - 1]
    /\ Len(outcomes) \in {Len(contacted) - 1, Len(contacted)}
    /\ Len(outcomes) < Len(contacted) => pc \in {"fetch", "analyze"}
    /\ \A i \in 1..Len(outcomes) :
         /\ i < Len(contacted) => outcomes[i] \in {"gateway", "failed"}
         /\ outcomes[i] \in {"direct", "tool"} =>
              /\ i = Len(outcomes)
              /\ Len(contacted) = i
              /\ pc = "done"

\* the third model of the cascade wins after two failures
C17_Witness ==
    /\ pc = "done"
    /\ current_model = "custom/primary"
    /\ outcomes = <<"gateway", "failed", "tool">>
    /\ contacted = <<"custom/primary", fallback_models[1], fallback_models[2]>>

\* C18: a WordPressAPIError raised by the content fetch of a tool invocation
\* sends search() to the fallback path: no further model is contacted.
C18_RetrievalErrorTriggersFallback ==
    [][(pc = "except" /\ last_exc = "WordPressAPIError") =>
          (pc' = "fallback" /\ contacted' = contacted)]_vars

\* C19: once a model has invoked the tool and the content fetch has
\* succeeded, no failure of the analysis completion continues the cascade:
\* the fetched records are returned.
C19_AnalysisFailureNeverContinues ==
    [][(pc = "analyze" /\ model_field.present) =>
          (/\ pc' = "done"
           /\ result'.results = wordpress_results
           /\ contacted' = contacted)]_vars

\* C20: in a result produced by a model's tool invocation, the tool-call
\* completion and the analysis completion went to the same model identifier,
\* and model_used is that identifier.
C20_NoMixingAcrossModels ==
    (pc = "done" /\ Last(outcomes) = "tool") =>
        /\ analysis.issued
        /\ analysis.model = Last(contacted)
        /\ result.model_used = Last(contacted)

\* the completion of the attempt in progress is of an unexpected shape: not
\* JSON, no usable choices[0].message, no model field, or a retrieval tool
\* call whose arguments are not valid JSON
MalformedResponse ==
    \/ reply.kind = "malformed"
    \/ reply.kind \in {"text", "empty", "other"} /\ ~reply.has_model
    \/ reply.kind = "search" /\ reply.args = "invalidjson"

\* C21: a model response of unexpected shape is handled like a gateway
\* failure: the attempt ends without a result, and search() goes on to the
\* next model of the cascade, or to the fallback path after the last one.
C21_MalformedResponseContinues ==
    /\ [](MalformedResponse =>
            /\ pc = "except"
            /\ Last(outcomes) = "failed"
            /\ result = NoResult
            /\ ~fetch.issued)
    /\ [][pc = "except" =>
            \/ idx < Len(Cascade(current_model)) /\ pc' = "attempt" /\ idx' = idx + 1
            \/ idx = Len(Cascade(current_model)) /\ pc' = "fallback" /\ idx' = idx]_vars

\* the tool call of the second model carried arguments that are not JSON
C21_Witness ==
    /\ pc = "except"
    /\ idx = 2
    /\ reply.kind = "search"
    /\ reply.args = "invalidjson"
    /\ last_exc = "AIError"

\* C22: a tool invocation whose decoded arguments lack query or maxResults,
\* or carry a value of the wrong type, or are not a mapping, never fails the
\* attempt: the original query and the default maxResults are used and the
\* content fetch is made.
C22_ToolArgumentsDefaulted ==
    (reply.kind = "search" /\ reply.args \in {"obj", "notmapping"}) =>
        /\ IsStr(search_query)
        /\ IsInt(search_max_results)
        /\ search_max_results[2] > 0
        /\ pc # "fetch" => fetch.issued

\* C23: a malformed upstream record (a field absent, null or of the wrong
\* type) raises neither in normalisation nor when the records are formatted
\* for the analysis call: after a content fetch that returned a list of
\* records, the attempt goes on to the analysis call.
C23_MalformedRecordDegrades ==
    (/\ reply.kind = "search"
     /\ fetch.issued
     /\ fetch.resp.kind = "json"
     /\ WellShapedList(fetch.resp.body)
     /\ ~analysis.issued) =>
        /\ pc = "analyze"
        /\ Len(wordpress_results) = Min(Len(fetch.resp.body.items),
                                        IF search_max_results = Null THEN DefaultMaxResults
                                        ELSE search_max_results[2])

\* C24: with one content client used by concurrent callers, under every
\* interleaving of their _rate_limit steps no two requests go out less than
\* the minimum interval apart.
C24_IntervalUnderConcurrency ==
    \A i \in 1..(Len(issued_at) - 1) :
        issued_at[i + 1] - issued_at[i] >= MinRequestInterval

\* C25: in every dict search() returns, on every path, total_results is the
\* length of results and query is the caller's query, also when the tool
\* invocation named another query.
C25_CountAndQueryConsistent ==
    pc = "done" =>
        /\ result.total_results = Len(result.results)
        /\ result.query = user_query

\* the tool invocation asked for "q2" while the caller asked for "q1"
C25_Witness ==
    /\ pc = "done"
    /\ Last(outcomes) = "tool"
    /\ user_query = "q1"
    /\ search_query = JStr("q2", 2)
    /\ Len(result.results) = 2

\* C26: the sentinels "fallback" and "error" are returned, and the content
\* fetch of the fallback path is issued, only after every entry of the
\* cascade has been attempted and has failed.
C26_FallbackOnlyAfterWholeCascade ==
    (\/ pc = "fallback"
     \/ pc \in {"done", "raised"} /\ Len(outcomes) > 0
                                  /\ Last(outcomes) \in {"gateway", "failed"}
     \/ pc = "done" /\ result.model_used \in {"fallback", "error"}) =>
        /\ AllFailed
        /\ Len(contacted) = 1 + Len(fallback_models)
        /\ contacted[1] = current_model
        /\ \A i \in 1..Len(fallback_models) : contacted[i + 1] = fallback_models[i]

\* the error sentinel after four failed attempts
C26_Witness ==
    /\ pc = "done"
    /\ result.model_used = "error"
    /\ Len(contacted) = 4
    /\ n_fetch = 1

\* C27: search() terminates, and within one search() every cascade entry
\* gets at most one tool-call completion, one content fetch and one analysis
\* completion: for a cascade of n entries at most n tool-call completions, n
\* analysis completions and n + 1 content fetches.
C27_BoundedWorkAndTermination ==
    /\ [](LET n == 1 + Len(fallback_models)
              attempts == Len(contacted)
          IN /\ attempts <= n
             /\ n_analysis <= n_fetch
             /\ n_fetch <= attempts + (IF pc \in {"done", "raised"} /\ AllFailed THEN 1 ELSE 0)
             /\ n_fetch <= n + 1
             /\ pc = "fetch" => n_fetch < attempts
             /\ pc = "analyze" => n_analysis < attempts)
    /\ (pc = "attempt") ~> (pc \in {"done", "raised"})

\* every model invoked the tool, fetched and failed in its analysis; the
\* fallback path made the fifth fetch
C27_Witness ==
    /\ pc = "done"
    /\ Len(contacted) = 4
    /\ n_analysis = 4
    /\ n_fetch = 5

\* C28: a response whose tool calls all name another tool is treated like an
\* answer without tool invocation: no content fetch, no analysis call, the
\* cascade stops, and the result has no records, a count of 0 and the
\* message's content as analysis.
C28_OtherToolsAreNoInvocation ==
    (reply.kind = "other" /\ reply.has_model) =>
        /\ pc = "done"
        /\ result.results = <<>>
        /\ result.total_results = 0
        /\ result.analysis = reply.content
        /\ ~fetch.issued
        /\ ~analysis.issued
        /\ Len(contacted) = idx

C28_Witness ==
    /\ pc = "done"
    /\ reply.kind = "other"
    /\ idx = 1
    /\ result.analysis = JStr("direct answer", 13)

====
